---- MODULE Spec2Model ----
(***************************************************************************)
(* Model of the hotel room reservation component (src/app/page.tsx):       *)
(* the fixed 97-room inventory, the travel-time metric, the room allocator *)
(* findOptimalRooms and the three state-changing handlers bookRooms,       *)
(* generateRandomOccupancy and resetBookings, plus the "Number of Rooms"   *)
(* input handler.                                                          *)
(***************************************************************************)
EXTENDS Integers, Sequences, FiniteSets, TLC

VARIABLES rooms, requestedRooms, lastBooking

vars == <<rooms, requestedRooms, lastBooking>>

(***************************************************************************)
(* Hotel structure constants.                                              *)
(***************************************************************************)
FLOORS == 10
ROOMS_PER_FLOOR == <<10, 10, 10, 10, 10, 10, 10, 10, 10, 7>>
MAX_ROOMS_PER_BOOKING == 5

AVAILABLE == "available"
OCCUPIED == "occupied"
SELECTED == "selected"
RoomStatus == {AVAILABLE, OCCUPIED, SELECTED}

(***************************************************************************)
(* Bounds of the model.                                                    *)
(***************************************************************************)
\* The text typed in the input parses to an integer in -MaxNegative..MaxTyped
\* or to NaN.
MaxNegative == 1
MaxTyped == 6
\* bookRooms is explored while fewer than MaxSelected rooms are Selected.
MaxSelected == 2
\* The outcomes of a random occupancy draw that split the floors do so after
\* floor 1..MaxSplit (and after floor FLOORS - 1).
MaxSplit == 2
\* A bookRooms call whose exhaustive search is for 4 or 5 rooms is explored
\* while at most MaxSearched rooms are Available (it then enumerates at most
\* MaxSearched-choose-5 combinations).
MaxSearched == 13

(***************************************************************************)
(* Generic helpers: JavaScript array primitives.                           *)
(***************************************************************************)
Abs(x) == IF x < 0 THEN -x ELSE x

\* Array.prototype.slice(0, end): a negative end counts from the back.
slice0(arr, end) ==
  LET len == Len(arr)
      k == IF end < 0 THEN (IF len + end < 0 THEN 0 ELSE len + end)
           ELSE (IF end > len THEN len ELSE end)
  IN SubSeq(arr, 1, k)

\* The comparators the code passes to sort.
compareFloorPosition(a, b) ==
  IF a.floor # b.floor THEN a.floor - b.floor ELSE a.position - b.position

comparePosition(a, b) == a.position - b.position

\* The comparator called `order`.
compare(order, a, b) ==
  IF order = "floorPosition" THEN compareFloorPosition(a, b)
  ELSE comparePosition(a, b)

\* Array.prototype.sort with the comparator called `order`: a stable sort,
\* built by stable insertion of arr[i], arr[i+1], ... into the sorted sequence t.
RECURSIVE insertFrom(_, _, _, _)
insertFrom(arr, order, i, t) ==
  IF i > Len(arr) THEN t
  ELSE LET k == Cardinality({j \in 1..Len(t) : compare(order, t[j], arr[i]) <= 0})
       IN insertFrom(arr, order, i + 1,
                     SubSeq(t, 1, k) \o <<arr[i]>> \o SubSeq(t, k + 1, Len(t)))

sort(arr, order) == insertFrom(arr, order, 1, <<>>)

(***************************************************************************)
(* Inventory construction.                                                 *)
(***************************************************************************)
roomNumber(floor, position) ==
  IF floor = 10 THEN 1000 + position ELSE floor * 100 + position

initializeRooms ==
  LET onFloor(floor) ==
        [position \in 1..ROOMS_PER_FLOOR[floor] |->
           [number |-> roomNumber(floor, position), floor |-> floor,
            position |-> position, status |-> AVAILABLE]]
      upTo[floor \in 0..FLOORS] ==
        IF floor = 0 THEN <<>> ELSE upTo[floor - 1] \o onFloor(floor)
  IN upTo[FLOORS]

(***************************************************************************)
(* Travel-time calculator.                                                 *)
(***************************************************************************)
calculateTravelTime(room1, room2) ==
  LET verticalTime == Abs(room1.floor - room2.floor) * 2
      horizontalTime == IF room1.floor = room2.floor
                        THEN Abs(room1.position - room2.position) ELSE 0
  IN verticalTime + horizontalTime

calculateTotalTravelTime(roomSet) ==
  IF Len(roomSet) <= 1 THEN 0
  ELSE LET sortedRooms == sort(roomSet, "floorPosition")
           RECURSIVE totalTime(_)
           totalTime(i) ==
             IF i > Len(sortedRooms) - 1 THEN 0
             ELSE calculateTravelTime(sortedRooms[i], sortedRooms[i + 1])
                    + totalTime(i + 1)
       IN totalTime(1)

(***************************************************************************)
(* Room allocator.                                                         *)
(***************************************************************************)
\* Mutant: the filter forgets the Selected status (status !== OCCUPIED).
getAvailableRoomsOnFloor_notOccupied(floor) ==
  sort(SelectSeq(rooms, LAMBDA room : room.floor = floor /\ room.status # OCCUPIED),
       "position")

getAvailableRoomsOnFloor(floor) ==
  sort(SelectSeq(rooms, LAMBDA room : room.floor = floor /\ room.status = AVAILABLE),
       "position")

\* Mutant: the loop stops one index early (i < rooms.length - size).
RECURSIVE generateCombinations_stopsEarly(_, _)
generateCombinations_stopsEarly(rs, size) ==
  IF size = 1 THEN [i \in 1..Len(rs) |-> <<rs[i]>>]
  ELSE LET iterations == IF Len(rs) - size < 0 THEN 0 ELSE Len(rs) - size
           withFirst(i) ==
             LET smaller == generateCombinations_stopsEarly(SubSeq(rs, i + 1, Len(rs)),
                                                            size - 1)
             IN [j \in 1..Len(smaller) |-> <<rs[i]>> \o smaller[j]]
           combinations[i \in 0..iterations] ==
             IF i = 0 THEN <<>> ELSE combinations[i - 1] \o withFirst(i)
       IN combinations[iterations]

RECURSIVE generateCombinations(_, _)
generateCombinations(rs, size) ==
  IF size = 1 THEN [i \in 1..Len(rs) |-> <<rs[i]>>]
  ELSE LET iterations == IF Len(rs) - size + 1 < 0 THEN 0 ELSE Len(rs) - size + 1
           withFirst(i) ==
             LET smaller == generateCombinations(SubSeq(rs, i + 1, Len(rs)), size - 1)
             IN [j \in 1..Len(smaller) |-> <<rs[i]>> \o smaller[j]]
           combinations[i \in 0..iterations] ==
             IF i = 0 THEN <<>> ELSE combinations[i - 1] \o withFirst(i)
       IN combinations[iterations]

\* Mutant: the comparison of the forEach is turned around (travelTime >
\* minTravelTime).
RECURSIVE bestIn_largest(_, _, _)
bestIn_largest(combinations, lo, hi) ==
  IF lo = hi
  THEN [time |-> calculateTotalTravelTime(combinations[lo]),
        combination |-> combinations[lo]]
  ELSE LET mid == (lo + hi) \div 2
           left == bestIn_largest(combinations, lo, mid)
           right == bestIn_largest(combinations, mid + 1, hi)
       IN IF right.time > left.time THEN right ELSE left

\* The forEach over the combinations keeps the first combination of strictly
\* smallest travel time.  bestIn gives the state of (minTravelTime,
\* bestCombination) contributed by combinations[lo..hi]; joining two halves
\* keeps the left one unless the right one is strictly smaller, which is what
\* the left-to-right loop does.
RECURSIVE bestIn(_, _, _)
bestIn(combinations, lo, hi) ==
  IF lo = hi
  THEN [time |-> calculateTotalTravelTime(combinations[lo]),
        combination |-> combinations[lo]]
  ELSE LET mid == (lo + hi) \div 2
           left == bestIn(combinations, lo, mid)
           right == bestIn(combinations, mid + 1, hi)
       IN IF right.time < left.time THEN right ELSE left

Message(kind, n, floor) == [kind |-> kind, n |-> n, floor |-> floor]

\* A BookingResult.  branch is not a field of the code's result: it records
\* the path findOptimalRooms took ("cap", "insufficient", "sameFloor",
\* "exhaustive", "greedy").
Result(rs, time, success, message, branch) ==
  [rooms |-> rs, totalTravelTime |-> time, success |-> success,
   message |-> message, branch |-> branch]

\* Mutant: the slice takes the last rooms of the sorted array
\* (slice(-numRooms)).
greedy_takesLast(numRooms, availableRooms) ==
  LET sorted == sort(availableRooms, "floorPosition")
  IN SubSeq(sorted, Len(sorted) - numRooms + 1, Len(sorted))

\* The greedy approach for larger requests.
greedy(numRooms, availableRooms) ==
  slice0(sort(availableRooms, "floorPosition"), numRooms)

\* Mutant: the guard of the exhaustive search admits requests of 4 rooms
\* (numRooms <= 4).
acrossFloors_wideGuard(numRooms, availableRooms) ==
  LET exhaustive == numRooms <= 4 \/ Len(availableRooms) <= 20
      combinations == generateCombinations(availableRooms, numRooms)
      best == IF exhaustive
              THEN IF Len(combinations) = 0
                   THEN [time |-> 0, combination |-> <<>>]
                   ELSE bestIn(combinations, 1, Len(combinations))
              ELSE LET bestCombination == greedy(numRooms, availableRooms)
                   IN [time |-> calculateTotalTravelTime(bestCombination),
                       combination |-> bestCombination]
      branch == IF exhaustive THEN "exhaustive" ELSE "greedy"
  IN IF Len(best.combination) = numRooms
     THEN Result(best.combination, best.time, TRUE,
                 Message("BookedAcross", numRooms, 0), branch)
     ELSE Result(<<>>, 0, FALSE, Message("Unable", 0, 0), branch)

\* Strategy 2 and the final length check; reached when no floor suffices.
\* branch tells whether generateCombinations was called.
acrossFloors(numRooms, availableRooms) ==
  LET exhaustive == numRooms <= 3 \/ Len(availableRooms) <= 20
      combinations == generateCombinations(availableRooms, numRooms)
      best == IF exhaustive
              THEN IF Len(combinations) = 0
                   THEN [time |-> 0, combination |-> <<>>]
                   ELSE bestIn(combinations, 1, Len(combinations))
              ELSE LET bestCombination == greedy(numRooms, availableRooms)
                   IN [time |-> calculateTotalTravelTime(bestCombination),
                       combination |-> bestCombination]
      branch == IF exhaustive THEN "exhaustive" ELSE "greedy"
  IN IF Len(best.combination) = numRooms
     THEN Result(best.combination, best.time, TRUE,
                 Message("BookedAcross", numRooms, 0), branch)
     ELSE Result(<<>>, 0, FALSE, Message("Unable", 0, 0), branch)

\* Mutant: a floor is taken only if it has more rooms than requested
\* (floorRooms.length > numRooms).
RECURSIVE sameFloorSearch_strict(_, _, _)
sameFloorSearch_strict(numRooms, availableRooms, floor) ==
  IF floor > FLOORS THEN acrossFloors(numRooms, availableRooms)
  ELSE LET floorRooms == getAvailableRoomsOnFloor(floor)
       IN IF Len(floorRooms) > numRooms
          THEN LET selectedRooms == slice0(floorRooms, numRooms)
               IN Result(selectedRooms, calculateTotalTravelTime(selectedRooms),
                         TRUE, Message("BookedOnFloor", numRooms, floor),
                         "sameFloor")
          ELSE sameFloorSearch_strict(numRooms, availableRooms, floor + 1)

\* Strategy 1: the loop over the floors, from `floor` on.
RECURSIVE sameFloorSearch(_, _, _)
sameFloorSearch(numRooms, availableRooms, floor) ==
  IF floor > FLOORS THEN acrossFloors(numRooms, availableRooms)
  ELSE LET floorRooms == getAvailableRoomsOnFloor(floor)
       IN IF Len(floorRooms) >= numRooms
          THEN LET selectedRooms == slice0(floorRooms, numRooms)
               IN Result(selectedRooms, calculateTotalTravelTime(selectedRooms),
                         TRUE, Message("BookedOnFloor", numRooms, floor),
                         "sameFloor")
          ELSE sameFloorSearch(numRooms, availableRooms, floor + 1)

\* Mutant: the cap check is off by one (numRooms > MAX_ROOMS_PER_BOOKING + 1).
findOptimalRooms_capOffByOne(numRooms) ==
  IF numRooms > MAX_ROOMS_PER_BOOKING + 1
  THEN Result(<<>>, 0, FALSE, Message("Maximum", MAX_ROOMS_PER_BOOKING, 0), "cap")
  ELSE
  LET availableRooms == SelectSeq(rooms, LAMBDA room : room.status = AVAILABLE)
  IN
  IF Len(availableRooms) < numRooms
  THEN Result(<<>>, 0, FALSE, Message("Only", Len(availableRooms), 0), "insufficient")
  ELSE
  sameFloorSearch(numRooms, availableRooms, 1)

findOptimalRooms(numRooms) ==
  IF numRooms > MAX_ROOMS_PER_BOOKING
  THEN Result(<<>>, 0, FALSE, Message("Maximum", MAX_ROOMS_PER_BOOKING, 0), "cap")
  ELSE
  LET availableRooms == SelectSeq(rooms, LAMBDA room : room.status = AVAILABLE)
  IN
  IF Len(availableRooms) < numRooms
  THEN Result(<<>>, 0, FALSE, Message("Only", Len(availableRooms), 0), "insufficient")
  ELSE
  sameFloorSearch(numRooms, availableRooms, 1)

(***************************************************************************)
(* State and handlers.                                                     *)
(***************************************************************************)
\* lastBooking = null
NoBooking == Result(<<>>, 0, FALSE, Message("null", 0, 0), "null")

Init ==
  /\ rooms = initializeRooms
  /\ requestedRooms = 1
  /\ lastBooking = NoBooking

availableRoomCount ==
  Len(SelectSeq(rooms, LAMBDA room : room.status = AVAILABLE))

selectedRoomCount ==
  Len(SelectSeq(rooms, LAMBDA room : room.status = SELECTED))

\* Mutant: the map writes the status of every room (isSelected ? SELECTED :
\* AVAILABLE).
markSelected_overwrites(prevRooms, result) ==
  [i \in 1..Len(prevRooms) |->
     [prevRooms[i] EXCEPT !.status =
        IF \E j \in 1..Len(result.rooms) : result.rooms[j].number = prevRooms[i].number
        THEN SELECTED ELSE AVAILABLE]]

\* The map inside setRooms of bookRooms.
markSelected(prevRooms, result) ==
  [i \in 1..Len(prevRooms) |->
     IF \E j \in 1..Len(result.rooms) : result.rooms[j].number = prevRooms[i].number
     THEN [prevRooms[i] EXCEPT !.status = SELECTED]
     ELSE prevRooms[i]]

\* Mutant: a failed result releases the rooms Selected so far.
commitBooking_releases(prevRooms, result) ==
  IF result.success THEN markSelected(prevRooms, result)
  ELSE [i \in 1..Len(prevRooms) |->
          IF prevRooms[i].status = SELECTED
          THEN [prevRooms[i] EXCEPT !.status = AVAILABLE]
          ELSE prevRooms[i]]

\* The commit of bookRooms: only a successful result changes the rooms.
commitBooking(prevRooms, result) ==
  IF result.success THEN markSelected(prevRooms, result) ELSE prevRooms

BookRooms ==
  /\ selectedRoomCount < MaxSelected
  /\ ~ /\ requestedRooms \in 4..MAX_ROOMS_PER_BOOKING
       /\ availableRoomCount \in (MaxSearched + 1)..20
       /\ \A floor \in 1..FLOORS :
            Len(getAvailableRoomsOnFloor(floor)) < requestedRooms
  /\ LET result == findOptimalRooms(requestedRooms)
     IN /\ rooms' = commitBooking(rooms, result)
        /\ lastBooking' = result
  /\ UNCHANGED requestedRooms

\* The outcomes of the 97 calls of Math.random() < 0.3 that are explored: a
\* draw <<a, f, b>> leaves Available exactly the positions a on the floors
\* 1..f and the positions b on the floors above f, every other room Occupied.
None == {}
One == {4}
Two == {2, 7}
Three == {1, 5, 6}
Four == {2, 3, 6, 9}
All == 1..10

OccupancyDraws ==
  {<<m, FLOORS, m>> : m \in {None, One, Two, Three, Four, All}}
  \cup {<<ab[1], f, ab[2]>> :
          f \in 1..MaxSplit,
          ab \in {<<One, None>>, <<Two, None>>, <<Three, None>>, <<None, One>>,
                  <<Two, One>>, <<Two, Three>>, <<One, Three>>, <<None, Three>>,
                  <<Three, Four>>, <<None, All>>, <<One, All>>}}
  \cup {<<ab[1], FLOORS - 1, ab[2]>> :
          ab \in {<<None, All>>, <<One, All>>, <<One, None>>}}

drawn(draw, room) ==
  IF room.position \in (IF room.floor <= draw[2] THEN draw[1] ELSE draw[3])
  THEN AVAILABLE ELSE OCCUPIED

GenerateRandomOccupancy ==
  \E draw \in OccupancyDraws :
    /\ rooms' = [i \in 1..Len(rooms) |-> [rooms[i] EXCEPT !.status = drawn(draw, rooms[i])]]
    /\ lastBooking' = NoBooking
    /\ UNCHANGED requestedRooms

ResetBookings ==
  /\ rooms' = initializeRooms
  /\ lastBooking' = NoBooking
  /\ UNCHANGED requestedRooms

\* What Number.parseInt makes of the typed text: NaN or an integer.
Typed ==
  {[nan |-> TRUE, value |-> 0]}
  \cup {[nan |-> FALSE, value |-> n] : n \in (0 - MaxNegative)..MaxTyped}

\* parsed || 1: NaN and 0 are falsy.
orOne(parsed) == IF parsed.nan \/ parsed.value = 0 THEN 1 ELSE parsed.value

SetRequestedRooms ==
  \E parsed \in Typed :
    /\ requestedRooms' = orOne(parsed)
    /\ UNCHANGED <<rooms, lastBooking>>

Next ==
  \/ SetRequestedRooms
  \/ BookRooms
  \/ GenerateRandomOccupancy
  \/ ResetBookings

Spec == Init /\ [][Next]_vars

(***************************************************************************)
(* Vocabulary of the properties.  These definitions state what is expected *)
(* of the allocator from the inventory alone; none of them uses the        *)
(* allocator's operators.                                                  *)
(***************************************************************************)
\* A step in which bookRooms stored a result: only bookRooms sets lastBooking
\* to a result, the other handlers set it to null or leave it alone.
BookStep ==
  /\ lastBooking' # NoBooking
  /\ lastBooking' # lastBooking \/ rooms' # rooms

\* The Available rooms of the inventory before the step, as a set.
availableSet == {rooms[i] : i \in {j \in 1..Len(rooms) : rooms[j].status = AVAILABLE}}

availableOn(floor) == {room \in availableSet : room.floor = floor}

someFloorHas(n) == \E floor \in 1..FLOORS : Cardinality(availableOn(floor)) >= n

\* room a comes before room b in (floor, position) order.
precedes(a, b) == a.floor < b.floor \/ (a.floor = b.floor /\ a.position < b.position)

\* The n first rooms of the set S in (floor, position) order.
firstOf(S, n) == {room \in S : Cardinality({other \in S : precedes(other, room)}) < n}

\* The rooms of a result as a set, and its room numbers.
roomSetOf(result) == {result.rooms[j] : j \in 1..Len(result.rooms)}

numbersOf(result) == {result.rooms[j].number : j \in 1..Len(result.rooms)}

ascending(result) ==
  \A j \in 1..(Len(result.rooms) - 1) : precedes(result.rooms[j], result.rooms[j + 1])

\* C1: for a request of 1..5 rooms, when some floor has that many Available
\* rooms, bookRooms' result is a success holding exactly the requested number
\* of lowest-position Available rooms of the lowest such floor, in ascending
\* position order.
SameFloorPreference ==
  [][(BookStep /\ requestedRooms \in 1..5 /\ someFloorHas(requestedRooms)) =>
       LET floor == CHOOSE f \in 1..FLOORS :
                      /\ Cardinality(availableOn(f)) >= requestedRooms
                      /\ \A g \in 1..(f - 1) : Cardinality(availableOn(g)) < requestedRooms
       IN /\ lastBooking'.success
          /\ Len(lastBooking'.rooms) = requestedRooms
          /\ roomSetOf(lastBooking') = firstOf(availableOn(floor), requestedRooms)
          /\ ascending(lastBooking')]_vars

\* C1 witness: three or more rooms were booked on floor 3 or above, the
\* lower floors lacking them, starting at a position that is not the first.
SameFloorPreferenceWitness ==
  /\ lastBooking.success
  /\ lastBooking.message.kind = "BookedOnFloor"
  /\ lastBooking.message.floor >= 3
  /\ lastBooking.message.n \in 3..5
  /\ Len(lastBooking.rooms) = lastBooking.message.n
  /\ lastBooking.rooms[1].position > 1
  /\ lastBooking.rooms[1].floor = lastBooking.message.floor

\* Every choice of n (1, 2 or 3) of the Available rooms, as sequences.
choicesOf(n) ==
  LET available == SelectSeq(rooms, LAMBDA room : room.status = AVAILABLE)
      I == 1..Len(available)
  IN IF n = 1 THEN {<<available[i]>> : i \in I}
     ELSE IF n = 2
     THEN {<<available[p[1]]>> \o <<available[p[2]]>> :
             p \in {q \in I \X I : q[1] < q[2]}}
     ELSE {<<available[p[1]]>> \o <<available[p[2]]>> \o <<available[p[3]]>> :
             p \in {q \in I \X I \X I : q[1] < q[2] /\ q[2] < q[3]}}

\* The minimum of calculateTotalTravelTime over every choice of n Available
\* rooms.
minimumTravelTime(n) ==
  LET times == {calculateTotalTravelTime(choice) : choice \in choicesOf(n)}
  IN CHOOSE m \in times : \A t \in times : m <= t

\* C2 as claimed: with at most 20 Available rooms and a request of 1..3 rooms
\* that are available, the result's totalTravelTime is the minimum over every
\* choice of that many Available rooms.
ExhaustiveOptimalityAsClaimed ==
  [][(BookStep /\ requestedRooms \in 1..3 /\ availableRoomCount <= 20
        /\ requestedRooms <= availableRoomCount) =>
       lastBooking'.totalTravelTime = minimumTravelTime(requestedRooms)]_vars

\* C2 amended: the same, provided no floor has the requested number of
\* Available rooms (the same-floor search does not compare travel times).
ExhaustiveOptimality ==
  [][(BookStep /\ requestedRooms \in 1..3 /\ availableRoomCount <= 20
        /\ requestedRooms <= availableRoomCount
        /\ ~someFloorHas(requestedRooms)) =>
       /\ lastBooking'.success
       /\ lastBooking'.totalTravelTime = minimumTravelTime(requestedRooms)]_vars

\* C2 witness: three rooms were chosen across floors out of 20 Available
\* rooms (17 are left), at a travel time of 4.
ExhaustiveOptimalityWitness ==
  /\ lastBooking.success
  /\ lastBooking.message.kind = "BookedAcross"
  /\ lastBooking.message.n = 3
  /\ lastBooking.totalTravelTime = 4
  /\ availableRoomCount = 17

\* C3 as claimed: whatever integer the input stored in requestedRooms, a
\* successful result holds exactly requestedRooms rooms and its
\* totalTravelTime is calculateTotalTravelTime of them.
SuccessPostcondition ==
  [][(BookStep /\ lastBooking'.success) =>
       /\ Len(lastBooking'.rooms) = requestedRooms
       /\ lastBooking'.totalTravelTime
            = calculateTotalTravelTime(lastBooking'.rooms)]_vars

\* C4: a request for more than 5 rooms gets the cap failure, whatever the
\* inventory: no rooms, travel time 0, the message naming the maximum of 5,
\* and neither the availability check nor a strategy is reached.
CapEnforcement ==
  [][(BookStep /\ requestedRooms > 5) =>
       /\ ~lastBooking'.success
       /\ lastBooking'.rooms = <<>>
       /\ lastBooking'.totalTravelTime = 0
       /\ lastBooking'.message.kind = "Maximum"
       /\ lastBooking'.message.n = 5
       /\ lastBooking'.branch = "cap"]_vars

\* C4 witness: the cap failure was returned with all 97 rooms Available.
CapEnforcementWitness ==
  /\ lastBooking.branch = "cap"
  /\ requestedRooms > 5
  /\ availableRoomCount = 97

\* C5: a bookRooms whose result is a failure leaves the status of every room
\* as it was; only lastBooking changes.
FailedBookingLeavesInventory ==
  [][(BookStep /\ ~lastBooking'.success) =>
       /\ rooms' = rooms
       /\ requestedRooms' = requestedRooms]_vars

\* C5 witness: bookRooms failed for lack of Available rooms while some rooms
\* were Available, some Occupied and some Selected.
FailedBookingWitness ==
  /\ lastBooking.branch = "insufficient"
  /\ availableRoomCount > 0
  /\ selectedRoomCount > 0
  /\ \E i \in 1..Len(rooms) : rooms[i].status = OCCUPIED

\* C6: after a successful bookRooms the rooms of the result are Selected and
\* every other room keeps its status; number, floor and position never
\* change.  From the fresh inventory a booking of 2 rooms yields rooms 101 and
\* 102 at travel time 1, and leaves every other room Available.
CommitFrame ==
  [][(BookStep /\ lastBooking'.success) =>
       /\ Len(rooms') = Len(rooms)
       /\ \A i \in 1..Len(rooms) :
            rooms'[i] = IF rooms[i].number \in numbersOf(lastBooking')
                        THEN [rooms[i] EXCEPT !.status = SELECTED]
                        ELSE rooms[i]
       /\ (rooms = initializeRooms /\ requestedRooms = 2) =>
            /\ numbersOf(lastBooking') = {101, 102}
            /\ lastBooking'.totalTravelTime = 1
            /\ \A i \in 1..Len(rooms) :
                 rooms'[i].status = IF rooms[i].number \in {101, 102}
                                    THEN SELECTED ELSE AVAILABLE]_vars

\* C6 witness: a booking was committed while another room was already
\* Selected and others were Occupied and Available.
CommitFrameWitness ==
  /\ lastBooking.success
  /\ lastBooking.rooms # <<>>
  /\ \A j \in 1..Len(lastBooking.rooms) :
       \E i \in 1..Len(rooms) :
         rooms[i].number = lastBooking.rooms[j].number /\ rooms[i].status = SELECTED
  /\ \E i \in 1..Len(rooms) :
       rooms[i].status = SELECTED /\ rooms[i].number \notin numbersOf(lastBooking)
  /\ \E i \in 1..Len(rooms) : rooms[i].status = OCCUPIED
  /\ \E i \in 1..Len(rooms) : rooms[i].status = AVAILABLE

\* C6 witness of the example: rooms 101 and 102 alone are Selected, every
\* other room is Available.
FreshBookingOfTwo ==
  /\ numbersOf(lastBooking) = {101, 102}
  /\ selectedRoomCount = 2
  /\ availableRoomCount = 95

\* C7: for a request of 4 or 5 rooms with more than 20 rooms Available and no
\* floor holding that many, the result is a success made of the first
\* requested number of Available rooms in (floor, position) order, in that
\* order, its travel time that of the selection, and no combination was
\* enumerated.
GreedyFallback ==
  [][(BookStep /\ requestedRooms \in {4, 5} /\ availableRoomCount > 20
        /\ ~someFloorHas(requestedRooms)) =>
       /\ lastBooking'.success
       /\ Len(lastBooking'.rooms) = requestedRooms
       /\ roomSetOf(lastBooking') = firstOf(availableSet, requestedRooms)
       /\ ascending(lastBooking')
       /\ lastBooking'.totalTravelTime
            = calculateTotalTravelTime(lastBooking'.rooms)
       /\ lastBooking'.branch = "greedy"]_vars

\* C7 witness: the greedy branch booked 5 rooms that span more than one
\* floor, the first of them above floor 1.
GreedyFallbackWitness ==
  /\ lastBooking.success
  /\ lastBooking.branch = "greedy"
  /\ Len(lastBooking.rooms) = 5
  /\ lastBooking.rooms[1].floor > 1
  /\ lastBooking.rooms[5].floor > lastBooking.rooms[1].floor

\* C8: bookRooms never gets the "Unable to find optimal room combination"
\* result, and every call that passes the cap check and the availability
\* check succeeds.
NoInternalFailure ==
  [][BookStep =>
       /\ lastBooking'.message.kind # "Unable"
       /\ (requestedRooms <= 5 /\ availableRoomCount >= requestedRooms)
            => lastBooking'.success]_vars

\* C8 witness: the cross-floor search was reached for 5 rooms and succeeded.
NoInternalFailureWitness ==
  /\ lastBooking.success
  /\ lastBooking.branch = "exhaustive"
  /\ lastBooking.message.n = 5
  /\ Len(lastBooking.rooms) = 5

\* C9: every room of a successful result was Available just before the
\* booking and occurs once in the result; so no Occupied room and no room
\* Selected earlier becomes part of a booking.
NoDoubleBooking ==
  [][(BookStep /\ lastBooking'.success) =>
       /\ \A j \in 1..Len(lastBooking'.rooms) :
            \E i \in 1..Len(rooms) :
              /\ rooms[i].number = lastBooking'.rooms[j].number
              /\ rooms[i].status = AVAILABLE
       /\ \A j, k \in 1..Len(lastBooking'.rooms) :
            j # k => lastBooking'.rooms[j].number # lastBooking'.rooms[k].number
       /\ \A i \in 1..Len(rooms) :
            rooms[i].status # AVAILABLE => rooms'[i].status = rooms[i].status]_vars

\* C9 witness: a second booking was made on a floor where a room Selected
\* earlier and an Occupied room stand at lower positions than the booked one.
NoDoubleBookingWitness ==
  /\ lastBooking.success
  /\ Len(lastBooking.rooms) >= 1
  /\ LET first == lastBooking.rooms[1]
     IN /\ \E i \in 1..Len(rooms) :
             /\ rooms[i].floor = first.floor
             /\ rooms[i].position < first.position
             /\ rooms[i].status = SELECTED
             /\ rooms[i].number \notin numbersOf(lastBooking)
        /\ \E i \in 1..Len(rooms) :
             /\ rooms[i].floor = first.floor
             /\ rooms[i].position < first.position
             /\ rooms[i].status = OCCUPIED

\* C10: whenever findOptimalRooms enumerates combinations, at most 20 rooms
\* are Available and at least 2 rooms are requested.
BoundedExhaustiveSearch ==
  [][(BookStep /\ lastBooking'.branch = "exhaustive") =>
       /\ availableRoomCount <= 20
       /\ requestedRooms >= 2
       /\ ~someFloorHas(requestedRooms)]_vars

\* C10 witness: combinations of 3 rooms were enumerated out of exactly 20
\* Available rooms, 2 on each floor.
BoundedExhaustiveSearchWitness ==
  /\ lastBooking.branch = "exhaustive"
  /\ requestedRooms = 3
  /\ Len(lastBooking.rooms) = 3
  /\ availableRoomCount = 17
  /\ selectedRoomCount = 3
====
